---- MODULE Spec2Model ----
(***************************************************************************)
(* The snake game of src/unnamed/part_000 (a React component, App) as a    *)
(* state machine.  The variables are the component's refs and React state, *)
(* the browser's table of active interval timers, the registered keydown   *)
(* listener and the canvas.  One action per event the browser can deliver: *)
(* the first mount, a click on the start button, a keydown, one firing of  *)
(* the interval timer, and the teardown of the view.  Each action is the   *)
(* whole handler together with the re-render and the effects that the      *)
(* handler's state updates cause.                                          *)
(*                                                                         *)
(* The port manager of src/forwarder.js follows: the blob store, the       *)
(* request handlers of its server, each at its own await, and the table of *)
(* its client with the debounced update.  The two programs share nothing;  *)
(* each specification moves the variables of one and leaves the other's    *)
(* alone.                                                                  *)
(***************************************************************************)
EXTENDS Integers, Sequences, FiniteSets

\* ------------------------------------------------------------------ constants
CANVAS_SIZE == 400
GRID_SIZE == 20

\* number of cells per side: CANVAS_SIZE / GRID_SIZE as the code computes it
N == CANVAS_SIZE \div GRID_SIZE

\* ------------------------------------------------------------------- bounds
\* the score at which the model stops letting the snake eat
MaxScore == 2
\* the random positions the model samples are numbered 0..FoodChoices
FoodChoices == 1
\* Math.random() takes the values r / RandomResolution, r in 0..RandomResolution-1
RandomResolution == 40
\* the requests the port manager's server receives in one behaviour
MaxRequests == 4
\* the request handlers that run at the same time
MaxInFlight == 2

VARIABLES
  view,              \* "created", "mounted" or "torndown"
  gameOver,          \* useState(false)
  score,             \* useState(0)
  isPlaying,         \* useState(false)
  gameLoopRef,       \* useRef(null): 0 is null, otherwise an interval id
  snake,             \* snakeRef.current, head first
  food,              \* foodRef.current
  direction,         \* directionRef.current
  activeTimers,      \* the browser's active interval timers (their ids)
  listener,          \* the keydown listeners on document: for each, the
                     \* value of isPlaying its handleKeyPress closed over
  canvas,            \* the fillRect calls since the canvas was last cleared
  committed,         \* history: the direction the most recent tick used,
                     \* or the initial heading if no tick ran since start
  ignoredKey         \* history: a keydown was delivered while the committed
                     \* isPlaying was false, since the last start

vars == <<view, gameOver, score, isPlaying, gameLoopRef, snake, food, direction,
          activeTimers, listener, canvas, committed, ignoredKey>>

VARIABLES
  straight,          \* history: the ticks that moved the snake since the
                     \* direction last changed (or the game started)
  blob,              \* the blob store's value under CONFIG_KEY
  handlers,          \* the server's request handlers, in order of arrival
  mappings,          \* the client's useState mappings
  debounced,         \* the pending call of debouncedUpdate: its argument
  acked,             \* history: the mappings whose POST was answered 201
  deleteSeen,        \* history: the ids a DELETE request has arrived for
  edited             \* history: the ids the client has edited inline

gameHistory == <<straight>>

pmVars == <<blob, handlers, mappings, debounced, acked, deleteSeen, edited>>

allVars == <<vars, gameHistory, pmVars>>

\* ------------------------------------------------------------------- values
Cell(x, y) == [x |-> x, y |-> y]

Origin == Cell(10, 10)

InitialFood == Cell(15, 15)

InitialHeading == Cell(1, 0)

Keys == {"ArrowUp", "ArrowDown", "ArrowLeft", "ArrowRight", "Other"}

\* the cells { x: Math.floor(Math.random() * N), y: Math.floor(Math.random() * N) }
\* can give, among those the model samples: sample 0 is the cell ahead of the
\* origin, sample 1 the origin, then the cells below them, row by row
getRandomPosition ==
  LET sample(k) == Cell(Origin.x + ((k + 1) % 2), Origin.y + (k \div 2))
  IN {c \in {sample(k) : k \in 0..FoodChoices} :
        c.x \in 0..(N - 1) /\ c.y \in 0..(N - 1)}

RandomValues == 0..(RandomResolution - 1)

\* faulty variant of randomCoordinate: Math.round where the code has Math.floor
randomCoordinateRounds(r) ==
  (2 * r * (CANVAS_SIZE \div GRID_SIZE) + RandomResolution) \div (2 * RandomResolution)

\* Math.floor(Math.random() * (CANVAS_SIZE / GRID_SIZE)) when Math.random()
\* gives r / RandomResolution
randomCoordinate(r) == (r * (CANVAS_SIZE \div GRID_SIZE)) \div RandomResolution

\* getRandomPosition() when its two calls of Math.random() give
\* rx / RandomResolution and ry / RandomResolution
getRandomPositionOf(rx, ry) == Cell(randomCoordinate(rx), randomCoordinate(ry))

\* ------------------------------------------------------------------ drawing
fillRect(px, py, w, h, style) == [x |-> px, y |-> py, w |-> w, h |-> h, style |-> style]

drawSnake(s) ==
  [i \in 1..Len(s) |-> fillRect(s[i].x * GRID_SIZE, s[i].y * GRID_SIZE,
                                GRID_SIZE, GRID_SIZE, "green")]

drawFood(f) ==
  <<fillRect(f.x * GRID_SIZE, f.y * GRID_SIZE, GRID_SIZE, GRID_SIZE, "red")>>

\* ------------------------------------------------------------------- timers
\* the id setInterval returns: a positive integer that names no active timer.
\* Ids are opaque to the program, which only hands them back to
\* clearInterval; the model takes the smallest free one.
setInterval(active) ==
  CHOOSE id \in 1..(Cardinality(active) + 1) : id \notin active

clearInterval(active, id) == active \ {id}

\* faulty variant of cleanupTimer: the clean-up forgets to clear the interval
cleanupTimerForgets(active, ref) == active

\* the clean-up function of an effect: if (ref) clearInterval(ref)
cleanupTimer(active, ref) == IF ref # 0 THEN clearInterval(active, ref) ELSE active

\* the body of the timer effect, run after a render in which isPlaying is
\* playing: the timers active and the value of gameLoopRef afterwards
timerEffectBody(playing, active, ref) ==
  IF playing
  THEN LET cleared == cleanupTimer(active, ref)
           id == setInterval(cleared)
       IN [active |-> cleared \cup {id}, ref |-> id]
  ELSE [active |-> cleanupTimer(active, ref), ref |-> ref]

\* the timer effect when isPlaying has changed: the clean-up of its previous
\* run, then its body
timerEffect(playing, active, ref) ==
  timerEffectBody(playing, cleanupTimer(active, ref), ref)

\* ---------------------------------------------------------------- moveSnake
newHead(s, d) == Cell(s[1].x + d.x, s[1].y + d.y)

\* faulty variant of collides: the walls are checked, the snake's own cells
\* are not
collidesWallsOnly(head, s) ==
  \/ head.x < 0
  \/ head.y < 0
  \/ head.x >= N
  \/ head.y >= N

\* faulty variant of collides: > where the code has >=
collidesOffByOne(head, s) ==
  \/ head.x < 0
  \/ head.y < 0
  \/ head.x > N
  \/ head.y > N
  \/ \E i \in 1..Len(s) : s[i].x = head.x /\ s[i].y = head.y

collides(head, s) ==
  \/ head.x < 0
  \/ head.y < 0
  \/ head.x >= N
  \/ head.y >= N
  \/ \E i \in 1..Len(s) : s[i].x = head.x /\ s[i].y = head.y

\* faulty variant of eats: only the x coordinate is compared
eatsSameColumn(head, f) == head.x = f.x

eats(head, f) == head.x = f.x /\ head.y = f.y

unshift(s, head) == <<head>> \o s

\* faulty variant of pop: shift() where the code has pop()
popShifts(s) == Tail(s)

pop(s) == SubSeq(s, 1, Len(s) - 1)

\* ----------------------------------------------------------- handleKeyPress
\* faulty variant of handleKeyPress: a key sets its own axis of the direction
\* and leaves the other axis as it was
handleKeyPressKeepsAxis(playing, key, d) ==
  IF ~playing THEN d
  ELSE CASE key = "ArrowUp"    -> IF d.y = 0 THEN Cell(d.x, -1) ELSE d
         [] key = "ArrowDown"  -> IF d.y = 0 THEN Cell(d.x, 1) ELSE d
         [] key = "ArrowLeft"  -> IF d.x = 0 THEN Cell(-1, d.y) ELSE d
         [] key = "ArrowRight" -> IF d.x = 0 THEN Cell(1, d.y) ELSE d
         [] OTHER              -> d

\* faulty variant of handleKeyPress: the isPlaying guard is missing
handleKeyPressUnguarded(playing, key, d) ==
  CASE key = "ArrowUp"    -> IF d.y = 0 THEN Cell(0, -1) ELSE d
    [] key = "ArrowDown"  -> IF d.y = 0 THEN Cell(0, 1) ELSE d
    [] key = "ArrowLeft"  -> IF d.x = 0 THEN Cell(-1, 0) ELSE d
    [] key = "ArrowRight" -> IF d.x = 0 THEN Cell(1, 0) ELSE d
    [] OTHER              -> d

handleKeyPress(playing, key, d) ==
  IF ~playing THEN d
  ELSE CASE key = "ArrowUp"    -> IF d.y = 0 THEN Cell(0, -1) ELSE d
         [] key = "ArrowDown"  -> IF d.y = 0 THEN Cell(0, 1) ELSE d
         [] key = "ArrowLeft"  -> IF d.x = 0 THEN Cell(-1, 0) ELSE d
         [] key = "ArrowRight" -> IF d.x = 0 THEN Cell(1, 0) ELSE d
         [] OTHER              -> d

\* ------------------------------------------------------------------- state
\* the blob store before anything was written under CONFIG_KEY: getJSON
\* gives a value that is no array
NoBlob == [isArray |-> FALSE, data |-> <<>>]

\* the port manager before its first request and before its client mounts
PMNotStarted ==
  /\ blob = NoBlob
  /\ handlers = <<>>
  /\ mappings = <<>>
  /\ debounced = <<>>
  /\ acked = {}
  /\ deleteSeen = {}
  /\ edited = {}

Init ==
  /\ view = "created"
  /\ gameOver = FALSE
  /\ score = 0
  /\ isPlaying = FALSE
  /\ gameLoopRef = 0
  /\ snake = <<Origin>>
  /\ food = InitialFood
  /\ direction = InitialHeading
  /\ activeTimers = {}
  /\ listener = <<>>
  /\ canvas = <<>>
  /\ committed = InitialHeading
  /\ ignoredKey = FALSE

\* the first render and its three effects
Mount ==
  /\ view = "created"
  /\ view' = "mounted"
  /\ canvas' = canvas \o drawSnake(snake) \o drawFood(food)
  /\ listener' = <<isPlaying>>
  /\ activeTimers' = timerEffectBody(isPlaying, activeTimers, gameLoopRef).active
  /\ gameLoopRef' = timerEffectBody(isPlaying, activeTimers, gameLoopRef).ref
  /\ UNCHANGED <<gameOver, score, isPlaying, snake, food, direction,
                 committed, ignoredKey>>

\* faulty variant of startAvailable: the button is rendered in every phase
startAlwaysAvailable == view = "mounted"

\* the start button is rendered only while !isPlaying
startAvailable == view = "mounted" /\ ~isPlaying

\* faulty variant of startGame: setScore(0) is missing
startGameKeepsScore ==
  /\ startAvailable
  /\ snake' = <<Origin>>
  /\ direction' = InitialHeading
  /\ \E p \in getRandomPosition : food' = p
  /\ gameOver' = FALSE
  /\ isPlaying' = TRUE
  /\ listener' = <<TRUE>>
  /\ activeTimers' = timerEffect(TRUE, activeTimers, gameLoopRef).active
  /\ gameLoopRef' = timerEffect(TRUE, activeTimers, gameLoopRef).ref
  /\ committed' = InitialHeading
  /\ ignoredKey' = FALSE
  /\ UNCHANGED <<view, canvas, score>>

\* handleStartClick -> startGame, then the re-render with isPlaying = true:
\* the keydown effect and the timer effect run again
startGame ==
  /\ startAvailable
  /\ snake' = <<Origin>>
  /\ direction' = InitialHeading
  /\ \E p \in getRandomPosition : food' = p
  /\ score' = 0
  /\ gameOver' = FALSE
  /\ isPlaying' = TRUE
  /\ listener' = <<TRUE>>
  /\ activeTimers' = timerEffect(TRUE, activeTimers, gameLoopRef).active
  /\ gameLoopRef' = timerEffect(TRUE, activeTimers, gameLoopRef).ref
  /\ committed' = InitialHeading
  /\ ignoredKey' = FALSE
  /\ UNCHANGED <<view, canvas>>

\* a keydown event delivered to the registered listener
keydown(key) ==
  /\ listener # <<>>
  /\ direction' = handleKeyPress(listener[1], key, direction)
  /\ ignoredKey' = (ignoredKey \/ ~isPlaying)
  /\ UNCHANGED <<view, gameOver, score, isPlaying, gameLoopRef, snake, food,
                 activeTimers, listener, canvas, committed>>

\* one firing of interval id: updateGame, i.e. draw, then moveSnake, then the
\* re-render its state updates cause
updateGame(id) ==
  /\ id \in activeTimers
  /\ canvas' = drawSnake(snake) \o drawFood(food)
  /\ committed' = direction
  /\ UNCHANGED ignoredKey
  /\ LET head == newHead(snake, direction) IN
       IF collides(head, snake)
       THEN /\ gameOver' = TRUE
            /\ isPlaying' = FALSE
            /\ activeTimers' =
                 timerEffect(FALSE, clearInterval(activeTimers, gameLoopRef),
                             gameLoopRef).active
            /\ gameLoopRef' =
                 timerEffect(FALSE, clearInterval(activeTimers, gameLoopRef),
                             gameLoopRef).ref
            /\ listener' = <<FALSE>>
            /\ UNCHANGED <<view, score, snake, food, direction>>
       ELSE IF eats(head, food)
       THEN /\ score < MaxScore
            /\ snake' = unshift(snake, head)
            /\ score' = score + 1
            /\ \E p \in getRandomPosition : food' = p
            /\ UNCHANGED <<view, gameOver, isPlaying, gameLoopRef, direction,
                           activeTimers, listener>>
       ELSE /\ snake' = pop(unshift(snake, head))
            /\ UNCHANGED <<view, gameOver, score, isPlaying, gameLoopRef, food,
                           direction, activeTimers, listener>>

\* the view is torn down: the clean-ups of the three effects run and the
\* canvas element goes away with the view
Unmount ==
  /\ view = "mounted"
  /\ view' = "torndown"
  /\ canvas' = <<>>
  /\ activeTimers' = cleanupTimer(cleanupTimer(activeTimers, gameLoopRef), gameLoopRef)
  /\ listener' = <<>>
  /\ UNCHANGED <<gameOver, score, isPlaying, gameLoopRef, snake, food, direction,
                 committed, ignoredKey>>

Next ==
  \/ Mount /\ UNCHANGED <<gameHistory, pmVars>>
  \/ startGame /\ UNCHANGED <<gameHistory, pmVars>>
  \/ \E key \in Keys : keydown(key) /\ UNCHANGED <<gameHistory, pmVars>>
  \/ \E id \in activeTimers : updateGame(id) /\ UNCHANGED <<gameHistory, pmVars>>
  \/ Unmount /\ UNCHANGED <<gameHistory, pmVars>>

\* the game alone: the port manager is not running
GameInit == Init /\ straight = 0 /\ PMNotStarted

Spec == GameInit /\ [][Next]_allVars

\* ------------------------------------------------- the resampling of the food
\* foodRef.current = getRandomPosition(), as startGame and moveSnake run it,
\* with getRandomPosition computed as the code computes it
resampleFood ==
  /\ \E rx, ry \in RandomValues : food' = getRandomPositionOf(rx, ry)
  /\ UNCHANGED <<view, gameOver, score, isPlaying, gameLoopRef, snake, direction,
                 activeTimers, listener, canvas, committed, ignoredKey>>
  /\ UNCHANGED <<gameHistory, pmVars>>

RandomNext == resampleFood

\* the food cell under any number of resamplings
SpecRandom == GameInit /\ [][RandomNext]_allVars

\* ------------------------------------- the game with its straight runs counted
\* straight counts the ticks that moved the snake since the direction last
\* changed or the game was started
LiveStart == startGame /\ straight' = 0 /\ UNCHANGED pmVars

LiveKey ==
  \E key \in Keys :
     /\ keydown(key)
     /\ straight' = IF direction' # direction THEN 0 ELSE straight
     /\ UNCHANGED pmVars

LiveTick ==
  \E id \in activeTimers :
     /\ updateGame(id)
     /\ straight' = IF isPlaying' THEN straight + 1 ELSE straight
     /\ UNCHANGED pmVars

LiveNext ==
  \/ Mount /\ UNCHANGED <<gameHistory, pmVars>>
  \/ LiveStart
  \/ LiveKey
  \/ LiveTick
  \/ Unmount /\ UNCHANGED <<gameHistory, pmVars>>

\* setInterval keeps calling updateGame for as long as the interval exists
SpecLive == GameInit /\ [][LiveNext]_allVars /\ WF_allVars(LiveTick)

\* ======================================================= the port manager
\* src/forwarder.js: a list of port mappings in one blob, a server function
\* that runs once per request, and a client that edits the rows inline.
\* Every await of a blob operation is a point where other handlers may run.

Ports == {8080, 3000}
Subdomains == {"app", "api"}
CloudIdeUrl == "ide.example.com"
PathIds == 1..2

\* { ...a, ...b }
spread(a, b) ==
  [f \in (DOMAIN a) \cup (DOMAIN b) |-> IF f \in DOMAIN b THEN b[f] ELSE a[f]]

\* blob.getJSON(CONFIG_KEY) behind Array.isArray and the catch
readConfig(b) == IF b.isArray THEN b.data ELSE <<>>

\* blob.setJSON(CONFIG_KEY, config)
writeConfig(config) == [isArray |-> TRUE, data |-> config]

idsOf(config) == {config[i].id : i \in 1..Len(config)}

\* Math.max(...ids)
MathMax(ids) == CHOOSE m \in ids : \A n \in ids : n <= m

\* faulty variant of nextId: one more than the number of mappings
nextIdByLength(config) == Len(config) + 1

\* config.length > 0 ? Math.max(...config.map(m => m.id)) + 1 : 1
nextId(config) == IF Len(config) > 0 THEN MathMax(idsOf(config)) + 1 ELSE 1

\* config.findIndex(m => m.id === id), counted from 0, -1 when there is none
findIndex(config, id) ==
  IF \E i \in 1..Len(config) : config[i].id = id
  THEN (CHOOSE i \in 1..Len(config) :
           /\ config[i].id = id
           /\ \A j \in 1..(i - 1) : config[j].id # id) - 1
  ELSE -1

\* config.filter(m => m.id !== id)
filterOut(config, id) ==
  LET keep(m) == m.id # id IN SelectSeq(config, keep)

\* the handler of a request that has just arrived; once it has answered, only
\* its method, its path id and its status are kept
Handler(method, id, body) ==
  [method |-> method, id |-> id, body |-> body, pc |-> "initConfig",
   config |-> <<>>, status |-> 0, overtaken |-> FALSE]

\* the requests of the model: GET /mappings, POST /mappings, PUT /mappings/id
\* with a body of the same id, DELETE /mappings/id
Requests ==
  {Handler("GET", 0, <<>>)}
    \cup {Handler("POST", 0, [port |-> 8080, subdomain |-> s, cloudIdeUrl |-> CloudIdeUrl]) :
             s \in Subdomains}
    \cup {Handler("PUT", id, [id |-> id, port |-> 3000]) : id \in PathIds}
    \cup {Handler("DELETE", id, <<>>) : id \in PathIds}

InFlight == {h \in 1..Len(handlers) : handlers[h].pc # "done"}

\* a request arrives and its handler starts
receive(r) ==
  /\ Len(handlers) < MaxRequests
  /\ handlers' = Append(handlers, r)
  /\ deleteSeen' = IF r.method = "DELETE" THEN deleteSeen \cup {r.id} ELSE deleteSeen
  /\ UNCHANGED <<blob, mappings, debounced, acked, edited>>

\* initConfig: const existingConfig = await readConfig()
initRead(h) ==
  /\ handlers[h].pc = "initConfig"
  /\ handlers' = [handlers EXCEPT ![h].pc =
                    IF Len(readConfig(blob)) = 0 THEN "initWrite" ELSE "route"]
  /\ UNCHANGED <<blob, mappings, debounced, acked, deleteSeen, edited>>

\* initConfig: await writeConfig([])
initWrite(h) ==
  /\ handlers[h].pc = "initWrite"
  /\ blob' = writeConfig(<<>>)
  /\ handlers' = [handlers EXCEPT ![h].pc = "route"]
  /\ UNCHANGED <<mappings, debounced, acked, deleteSeen, edited>>

\* the branch of the request's method, from its readConfig up to its
\* writeConfig or, where it writes nothing, its response
route(h) ==
  /\ handlers[h].pc = "route"
  /\ LET r == handlers[h]
         config == readConfig(blob)
         index == findIndex(config, r.id)
     IN  handlers' =
           IF r.method = "GET"
           THEN [handlers EXCEPT ![h].pc = "done", ![h].body = <<>>, ![h].status = 200]
           ELSE IF r.method = "POST"
           THEN [handlers EXCEPT ![h].pc = "write",
                   ![h].config = Append(config, spread(r.body, [id |-> nextId(config)]))]
           ELSE IF r.method = "PUT"
           THEN IF index # -1
                THEN [handlers EXCEPT ![h].pc = "write",
                        ![h].config = [config EXCEPT ![index + 1] =
                                          spread(config[index + 1], r.body)]]
                ELSE [handlers EXCEPT ![h].pc = "done", ![h].body = <<>>, ![h].status = 404]
           ELSE [handlers EXCEPT ![h].pc = "write",
                   ![h].config = filterOut(config, r.id)]
  /\ UNCHANGED <<blob, mappings, debounced, acked, deleteSeen, edited>>

\* await writeConfig(...) and the response that follows it
write(h) ==
  /\ handlers[h].pc = "write"
  /\ LET r == handlers[h] IN
       /\ blob' = writeConfig(r.config)
       /\ handlers' =
            [j \in 1..Len(handlers) |->
               IF j = h
               THEN [r EXCEPT !.pc = "done", !.body = <<>>, !.config = <<>>,
                              !.status = IF r.method = "POST" THEN 201 ELSE 200]
               ELSE IF /\ r.method = "DELETE"
                       /\ j < h
                       /\ handlers[j].method = "PUT"
                       /\ handlers[j].id = r.id
                       /\ handlers[j].pc # "done"
               THEN [handlers[j] EXCEPT !.overtaken = TRUE]
               ELSE handlers[j]]
       /\ acked' = IF r.method = "POST"
                   THEN acked \cup {r.config[Len(r.config)]}
                   ELSE acked
  /\ UNCHANGED <<mappings, debounced, deleteSeen, edited>>

\* one step of one handler
ServerStep ==
  \E h \in 1..Len(handlers) :
     \/ initRead(h)
     \/ initWrite(h)
     \/ route(h)
     \/ write(h)

\* requests arrive while earlier ones are still being handled
ConcurrentReceive ==
  /\ Cardinality(InFlight) < MaxInFlight
  /\ \E r \in Requests : receive(r)

ServerNext ==
  \/ ConcurrentReceive /\ UNCHANGED <<vars, gameHistory>>
  \/ ServerStep /\ UNCHANGED <<vars, gameHistory>>

\* the server under concurrent requests
SpecServer == GameInit /\ [][ServerNext]_allVars

\* a request arrives when no other is being handled
SequentialReceive ==
  /\ InFlight = {}
  /\ \E r \in Requests : receive(r)

SequentialNext ==
  \/ SequentialReceive /\ UNCHANGED <<vars, gameHistory>>
  \/ ServerStep /\ UNCHANGED <<vars, gameHistory>>

\* the server with its requests handled one at a time
SpecSequential == GameInit /\ [][SequentialNext]_allVars

\* ------------------------------------------------ the port manager's client
\* the rows of the table: two mappings that were posted and then fetched by
\* the effect that runs on mount
InitialRows ==
  << [id |-> 1, port |-> 8080, subdomain |-> "app", cloudIdeUrl |-> CloudIdeUrl],
     [id |-> 2, port |-> 8080, subdomain |-> "api", cloudIdeUrl |-> CloudIdeUrl] >>

ClientInit ==
  /\ Init /\ straight = 0
  /\ blob = writeConfig(InitialRows)
  /\ handlers = <<>>
  /\ mappings = InitialRows
  /\ debounced = <<>>
  /\ acked = {InitialRows[i] : i \in 1..Len(InitialRows)}
  /\ deleteSeen = {}
  /\ edited = {}

\* the inputs of a row that call handleInlineEdit, and what can be typed there
EditableFields == {"port", "subdomain"}
ValuesOf(field) == IF field = "port" THEN Ports ELSE Subdomains

\* handleInlineEdit(id, field, value); a call of debouncedUpdate replaces the
\* pending call and its argument and restarts the 500 ms
handleInlineEdit(id, field, value) ==
  LET updatedMappings ==
        [i \in 1..Len(mappings) |->
           IF mappings[i].id = id
           THEN spread(mappings[i], [f \in {field} |-> value])
           ELSE mappings[i]]
      index == findIndex(updatedMappings, id)
  IN  /\ mappings' = updatedMappings
      /\ debounced' = IF index # -1 THEN <<updatedMappings[index + 1]>> ELSE debounced
      /\ edited' = edited \cup {id}
      /\ UNCHANGED <<blob, handlers, acked, deleteSeen>>

\* 500 ms have passed since the last call of debouncedUpdate: the debounced
\* function runs with the argument of that call and sends its PUT
debouncedUpdate ==
  /\ debounced # <<>>
  /\ Len(handlers) < MaxRequests
  /\ handlers' = Append(handlers, Handler("PUT", debounced[1].id, debounced[1]))
  /\ debounced' = <<>>
  /\ UNCHANGED <<blob, mappings, acked, deleteSeen, edited>>

\* the user edits rows of the table; the PUTs are handled one at a time (what
\* concurrent handlers do is the subject of SpecServer)
ClientNext ==
  \/ /\ \E i \in 1..Len(mappings), field \in EditableFields :
           \E value \in ValuesOf(field) : handleInlineEdit(mappings[i].id, field, value)
     /\ UNCHANGED <<vars, gameHistory>>
  \/ InFlight = {} /\ debouncedUpdate /\ UNCHANGED <<vars, gameHistory>>
  \/ ServerStep /\ UNCHANGED <<vars, gameHistory>>

SpecClient == ClientInit /\ [][ClientNext]_allVars

\* ===================================================================== claims
\* the phase the pair (isPlaying, gameOver) encodes
Phase ==
  IF isPlaying /\ ~gameOver THEN "Running"
  ELSE IF ~isPlaying /\ gameOver THEN "Over"
  ELSE IF ~isPlaying /\ ~gameOver THEN "Idle"
  ELSE "Invalid"

Opposite(d) == Cell(-d.x, -d.y)

\* the direction a key asks for
Requested(key) ==
  CASE key = "ArrowUp"    -> Cell(0, -1)
    [] key = "ArrowDown"  -> Cell(0, 1)
    [] key = "ArrowLeft"  -> Cell(-1, 0)
    [] key = "ArrowRight" -> Cell(1, 0)

ArrowKeys == Keys \ {"Other"}

\* a step that is one firing of the interval timer
TickStep == \E id \in activeTimers : updateGame(id)

\* the cell the next tick moves the head to
Ahead == Cell(snake[1].x + direction.x, snake[1].y + direction.y)

\* Ahead is off the 20 x 20 grid
AheadOffGrid == Ahead.x < 0 \/ Ahead.x >= 20 \/ Ahead.y < 0 \/ Ahead.y >= 20

\* Ahead is a cell of the snake, the tail cell included
AheadOnSnake == \E i \in 1..Len(snake) : snake[i] = Ahead

AheadHits == AheadOffGrid \/ AheadOnSnake

\* C1: while Running, a request for the exact opposite of the committed
\* direction leaves the direction the next tick will use unchanged, whatever
\* keys arrived since the last tick; hence no tick moves the snake in the
\* direction opposite to the previous tick's.
C1_OppositeOfCommittedRejected ==
  [][/\ \A key \in ArrowKeys :
          (Phase = "Running" /\ keydown(key) /\ Requested(key) = Opposite(committed))
             => direction' = direction
     /\ TickStep => direction # Opposite(committed)]_vars

\* C2: while the phase is Idle or Running the snake has no two equal cells.
C2_NoDuplicateCells ==
  Phase \in {"Idle", "Running"} =>
     \A i, j \in 1..Len(snake) : i # j => snake[i] # snake[j]

\* a Running snake of three cells that has just turned
C2_Witness ==
  /\ Phase = "Running"
  /\ Len(snake) >= 3
  /\ snake[1].x # snake[3].x
  /\ snake[1].y # snake[3].y

\* C3: a tick whose new head is off the 20 x 20 grid or on a cell of the
\* pre-tick snake sets the phase to Over and leaves snake, food and score as
\* they were.
C3_CollisionEndsGame ==
  [][(TickStep /\ AheadHits) =>
        /\ Phase' = "Over"
        /\ snake' = snake
        /\ food' = food
        /\ score' = score]_vars

\* the game ended on a wall with a snake that had eaten
C3_Witness ==
  /\ Phase = "Over"
  /\ AheadOffGrid
  /\ Len(snake) >= 2

\* C4: a non-colliding tick whose new head is not the food cell yields the
\* new head followed by the old snake without its last cell, of the same
\* length; score and food are unchanged.
C4_MoveShiftsSnake ==
  [][(TickStep /\ ~AheadHits /\ Ahead # food) =>
        /\ snake' = <<Ahead>> \o SubSeq(snake, 1, Len(snake) - 1)
        /\ Len(snake') = Len(snake)
        /\ score' = score
        /\ food' = food]_vars

\* the last tick drew a snake of three cells and moved it without growing it
C4_Witness ==
  /\ Phase = "Running"
  /\ Len(snake) = 3
  /\ Len(canvas) = 4
  /\ canvas[1] = drawSnake(snake)[2]
  /\ canvas[2] = drawSnake(snake)[3]

\* C5: a non-colliding tick whose new head is the food cell adds 1 to the
\* score, prepends the new head and removes nothing, and the phase stays
\* Running; no other tick changes the score or the length.
C5_EatingGrowsByOne ==
  [][TickStep =>
        IF ~AheadHits /\ Ahead = food
        THEN /\ score' = score + 1
             /\ snake' = <<Ahead>> \o snake
             /\ Len(snake') = Len(snake) + 1
             /\ Phase = "Running"
             /\ Phase' = "Running"
        ELSE /\ score' = score
             /\ Len(snake') = Len(snake)]_vars

\* the last tick drew a snake of two cells and the snake now has three
C5_Witness ==
  /\ Phase = "Running"
  /\ score = 2
  /\ Len(snake) = 3
  /\ Len(canvas) = 3
  /\ canvas[1] = drawSnake(snake)[2]

\* a step that is a click on the start button, or that starts a game
StartStep == startGame \/ (~isPlaying /\ isPlaying')

\* C6: start() from Idle or from Over yields snake = [(10,10)], direction =
\* (1,0), score = 0, the Game Over flag cleared and phase Running, whatever
\* the state before.
C6_StartResets ==
  [][StartStep =>
        /\ Phase \in {"Idle", "Over"}
        /\ snake' = <<[x |-> 10, y |-> 10]>>
        /\ direction' = [x |-> 1, y |-> 0]
        /\ score' = 0
        /\ gameOver' = FALSE
        /\ Phase' = "Running"]_vars

\* a game restarted after one that ended with a score: the canvas still shows
\* the longer snake of the game before, no tick of the new game has drawn yet
C6_Witness ==
  /\ Phase = "Running"
  /\ score = 0
  /\ snake = <<Origin>>
  /\ direction = InitialHeading
  /\ Len(canvas) >= 3

\* C7: the phase only moves Idle -> Running by start, Running -> Over by a
\* colliding tick and Over -> Running by start; isPlaying and gameOver are
\* never both true, Idle is never re-entered, and start is not available
\* while Running.
C7_Lifecycle ==
  /\ [](Phase # "Invalid")
  /\ [][/\ Phase' # Phase =>
             \/ Phase = "Idle" /\ Phase' = "Running" /\ startGame
             \/ Phase = "Running" /\ Phase' = "Over" /\ TickStep /\ AheadHits
             \/ Phase = "Over" /\ Phase' = "Running" /\ startGame
        /\ startGame => Phase # "Running"
        /\ Phase = "Running" => ~startAvailable]_vars

\* the game is over and the start button is back
C7_Witness ==
  /\ Phase = "Over"
  /\ startAvailable
  /\ gameLoopRef # 0

\* C8: an interval timer is active only while the phase is Running and the
\* view is mounted; at most one is active at a time; the colliding tick and
\* the teardown cancel it; no tick executes in phase Idle or Over.
C8_TimerOnlyWhileRunning ==
  /\ [](/\ activeTimers # {} => (Phase = "Running" /\ view = "mounted")
        /\ Cardinality(activeTimers) <= 1)
  /\ [][/\ TickStep => (Phase = "Running" /\ view = "mounted")
        /\ (TickStep /\ AheadHits) => activeTimers' = {}
        /\ Unmount => activeTimers' = {}]_vars

\* the view was torn down in the middle of a game and no timer is left
C8_Witness ==
  /\ view = "torndown"
  /\ Phase = "Running"
  /\ gameLoopRef # 0
  /\ activeTimers = {}

\* C9: after every tick executed while Running the canvas shows the
\* post-tick snake and food, and the mount draws one frame of the initial
\* state.
C9_CanvasShowsPostTickState ==
  [][/\ (TickStep /\ Phase = "Running") =>
             canvas' = drawSnake(snake') \o drawFood(food')
     /\ Mount => canvas' = drawSnake(snake) \o drawFood(food)]_vars

\* C10: while the phase is Idle or Over a key press changes nothing, and
\* direction, snake, food, score and phase stay as they are until start().
C10_KeysIgnoredUnlessRunning ==
  [][(Phase \in {"Idle", "Over"} /\ ~startGame) =>
        UNCHANGED <<direction, snake, food, score, isPlaying, gameOver>>]_vars

\* a key press was delivered after the game was over
C10_Witness ==
  /\ Phase = "Over"
  /\ ignoredKey
  /\ view = "mounted"

\* C11: while Running, every request d that is not the exact opposite of the
\* committed direction is recorded: right after it the direction the next
\* tick will use is d, also when an earlier request was accepted since the
\* last tick.  Stated on the state the request arrives in: the handler, run
\* on that state, yields d.
C11_OtherRequestsRecorded ==
  (Phase = "Running" /\ listener # <<>>) =>
     \A key \in ArrowKeys :
        Requested(key) # Opposite(committed) =>
           handleKeyPress(listener[1], key, direction) = Requested(key)

\* C12: the snake has at least one cell and every cell lies on the 20 x 20
\* grid.
C12_SnakeOnGrid ==
  /\ Len(snake) >= 1
  /\ \A i \in 1..Len(snake) :
        /\ 0 <= snake[i].x /\ snake[i].x < 20
        /\ 0 <= snake[i].y /\ snake[i].y < 20

\* a snake of three cells with its head in the last column
C12_Witness ==
  /\ Phase = "Running"
  /\ Len(snake) = 3
  /\ snake[1].x = 19

\* the food cell is a cell of the snake
FoodOnSnake == \E i \in 1..Len(snake) : snake[i] = food

\* C14: food may lie on the snake (the witness: a Running state with the food
\* under the body, after eating), and the game goes on from such a state by
\* its usual rules: a tick either collides and ends the game, or moves the
\* snake and leaves food and score alone, the food being out of the head's
\* reach while it is under the snake.
C14_FoodOnSnakeIsPlayable ==
  [][(TickStep /\ FoodOnSnake) =>
        IF AheadHits
        THEN Phase' = "Over" /\ snake' = snake /\ food' = food
        ELSE /\ Phase' = "Running"
             /\ snake' = <<Ahead>> \o SubSeq(snake, 1, Len(snake) - 1)
             /\ food' = food
             /\ score' = score]_vars

\* the snake has eaten and the new food lies under its body
C14_Witness ==
  /\ Phase = "Running"
  /\ view = "mounted"
  /\ score >= 1
  /\ activeTimers # {}
  /\ \E i \in 2..Len(snake) : snake[i] = food

\* C15: in every phase the score is the length of the snake minus one.
C15_ScoreIsLengthMinusOne == score = Len(snake) - 1

\* a game that ended with two foods eaten
C15_Witness ==
  /\ Phase = "Over"
  /\ score = 2
  /\ Len(snake) = 3

\* C16: any two consecutive cells of the snake differ by exactly 1 in exactly
\* one coordinate.
C16_ConsecutiveCellsAdjacent ==
  \A i \in 1..(Len(snake) - 1) :
     \/ /\ snake[i].x = snake[i + 1].x
        /\ snake[i].y - snake[i + 1].y \in {-1, 1}
     \/ /\ snake[i].y = snake[i + 1].y
        /\ snake[i].x - snake[i + 1].x \in {-1, 1}

\* a snake of three cells in one column, heading up
C16_Witness ==
  /\ Phase = "Running"
  /\ Len(snake) = 3
  /\ snake[1].x = snake[3].x
  /\ snake[1].y = snake[3].y - 2

\* the values of r for which a random coordinate is v
DrawsGiving(v) == {r \in RandomValues : randomCoordinate(r) = v}

\* C13: the food cell lies on the 20 x 20 grid, and a resample may choose any
\* cell of the grid.
C13_FoodOnGridAnyCell ==
  /\ 0 <= food.x /\ food.x < 20
  /\ 0 <= food.y /\ food.y < 20
  /\ \A x, y \in 0..19 :
        \E rx \in DrawsGiving(x), ry \in DrawsGiving(y) :
           getRandomPositionOf(rx, ry) = [x |-> x, y |-> y]

\* the food was resampled to the corner farthest from the origin row
C13_Witness == food = [x |-> 19, y |-> 0]

\* the next tick would let the snake grow beyond the bound of the model
GrowthBounded == score = MaxScore /\ ~AheadHits /\ eats(Ahead, food)

\* C17: a run of ticks without an accepted direction request in between ends
\* the game with its 20th tick at the latest (at most 19 of them move the
\* snake), and while the interval exists the game does not stay Running
\* forever without a direction change or a restart.
C17_StraightRunEnds ==
  /\ [](straight <= 19)
  /\ []<>(Phase # "Running" \/ straight = 0 \/ activeTimers = {} \/ GrowthBounded)

\* a game that ended with the 20th tick of a straight run
C17_Witness == Phase = "Over" /\ straight = 19

\* the list a readConfig would return now
Stored == readConfig(blob)

\* handler h completes a POST in this step
PostAnswered(h) ==
  /\ handlers[h].method = "POST"
  /\ handlers[h].pc = "write"
  /\ handlers'[h].pc = "done"

\* C20: with the requests handled one at a time, the ids of the stored
\* mappings are pairwise distinct, and a POST appends its mapping under the
\* id max(existing ids) + 1, or 1 when the list is empty.
C20_SequentialIdsDistinct ==
  /\ [](\A i, j \in 1..Len(Stored) : Stored[i].id = Stored[j].id => i = j)
  /\ [][\A h \in 1..Len(handlers) :
          PostAnswered(h) =>
             /\ Len(readConfig(blob')) = Len(Stored) + 1
             /\ SubSeq(readConfig(blob'), 1, Len(Stored)) = Stored
             /\ readConfig(blob')[Len(Stored) + 1].id =
                  IF Stored = <<>> THEN 1
                  ELSE 1 + (CHOOSE m \in idsOf(Stored) : \A n \in idsOf(Stored) : n <= m)
       ]_allVars

\* two POSTs, the DELETE of the first mapping and a third POST were handled
C20_Witness ==
  /\ Len(handlers) = 4
  /\ handlers[4].method = "POST" /\ handlers[4].status = 201
  /\ idsOf(Stored) = {2, 3}

\* the posted mapping a is in the stored list
InStored(a) ==
  \E i \in 1..Len(Stored) : Stored[i].id = a.id /\ Stored[i].subdomain = a.subdomain

\* handler h, a PUT that arrived before a DELETE of its id which has been
\* answered since, writes in this step
OvertakenPutWrites(h) ==
  /\ handlers[h].method = "PUT"
  /\ handlers[h].overtaken
  /\ handlers[h].pc = "write"
  /\ handlers'[h].pc = "done"

\* C19: under any interleaving of the handlers, a mapping whose POST was
\* answered 201 is in the stored list as long as no DELETE for its id has
\* arrived, and a PUT that arrived before a DELETE of its id does not put the
\* mapping back once that DELETE was answered.
C19_AnsweredPostsStay ==
  /\ [](\A a \in acked : a.id \in deleteSeen \/ InStored(a))
  /\ [][\A h \in 1..Len(handlers) :
          OvertakenPutWrites(h) => handlers[h].id \notin idsOf(readConfig(blob'))
       ]_allVars

\* no call of debouncedUpdate is pending and every request was answered, the
\* PUTs with 200
EditsSettled ==
  /\ debounced = <<>>
  /\ \A h \in 1..Len(handlers) :
        /\ handlers[h].pc = "done"
        /\ handlers[h].method = "PUT" => handlers[h].status = 200

\* C18: once the edits have stopped, the debounce has fired and its PUT has
\* succeeded, the stored mapping of every edited id equals the client's
\* mapping of that id.
C18_EditsPersisted ==
  EditsSettled =>
     \A id \in edited :
        \E i \in 1..Len(Stored), j \in 1..Len(mappings) :
           /\ Stored[i].id = id
           /\ mappings[j].id = id
           /\ Stored[i] = mappings[j]

====
